---- MODULE Spec2Model ----
(***************************************************************************)
(* Model of the three day02 command line tools:                            *)
(*   tool3_csv_quicklook.py  (SpecCsv)   single pass CSV profiler          *)
(*   tool1_file_stats.py     (SpecStats) line / word / character counter   *)
(*   tool2_password_gen.py   (SpecPw)    password generator                *)
(* Strings are sequences of one-character strings, so that strip(),        *)
(* split() and float() are computed and not assumed.                       *)
(***************************************************************************)
EXTENDS Integers, Sequences, FiniteSets, TLC

VARIABLES
    \* ---- tool3_csv_quicklook.py
    pc,               \* position of main: "start", "reading", "done", "exit"
    head,             \* args.head
    path_kind,        \* what args.csv_path names: "absent", "dir", "file"
    fieldnames,       \* reader.fieldnames: NoHeader (Python None) or a sequence
    columns,          \* columns (line 85)
    row_count,        \* row_count
    preview_rows,     \* preview_rows
    missing_counts,   \* missing_counts
    numeric_possible, \* numeric_possible
    non_missing_seen, \* non_missing_seen
    summary,          \* the "Column summary" lines printed, one per entry of columns
    rows_read,        \* history: the rows the reader has yielded so far, in order
    \* ---- tool1_file_stats.py
    fpc,              \* position of main: "next", "reading", "end", "done"
    total_flag,       \* args.total
    fs,               \* the file system entry behind each element of args.files
    fidx,             \* index in args.files of the file being processed
    fpos,             \* number of lines of the current file read so far
    lines, words, chars,                    \* per-file counters
    total_lines, total_words, total_chars,  \* running totals
    processed,        \* processed
    out,              \* standard output of tool1, one record per print
    \* ---- tool2_password_gen.py
    ppc,              \* position: "main", "call", "check", "pick", "fill", "shuffle",
                      \*           "return", "done", "exit", "raised"
    caller,           \* "main" (through main) or "direct" (generate_password called directly)
    length,           \* args.length / length
    count,            \* args.count
    use_symbols,      \* use_symbols
    pchars,           \* chars, the list under construction
    chosen,           \* history: the characters drawn from secrets.choice, in order
    result,           \* value returned by the last generate_password call
    made,             \* number of completed iterations of main's for loop
    pout              \* standard output of tool2: the passwords printed

csvVars == <<pc, head, path_kind, fieldnames, columns, row_count, preview_rows,
             missing_counts, numeric_possible, non_missing_seen, summary, rows_read>>
statsVars == <<fpc, total_flag, fs, fidx, fpos, lines, words, chars,
               total_lines, total_words, total_chars, processed, out>>
pwVars == <<ppc, caller, length, count, use_symbols, pchars, chosen, result, made, pout>>
vars == <<csvVars, statsVars, pwVars>>

\* ---------------------------------------------------------------- bounds
MaxRows == 2      \* data rows read from the CSV file
MaxHead == 1      \* largest --head tried
MaxFiles == 2     \* file arguments of tool1
MaxLines == 2     \* decodable lines of a file
MaxLength == 4    \* largest password length tried
MaxCount == 1     \* largest --count tried

\* ---------------------------------------------------------------- helpers
Range(s) == {s[i] : i \in 1..Len(s)}
Min(a, b) == IF a < b THEN a ELSE b

\* Python None, as a field value: a one-element sequence that is no string of the model
None == <<"None">>
\* reader.fieldnames of an empty file
NoHeader == <<"NoHeader">>

WS == {" ", "\n"}

\* str.strip(): drop leading and trailing whitespace
RECURSIVE lstrip(_)
lstrip(s) == IF s # <<>> /\ Head(s) \in WS THEN lstrip(Tail(s)) ELSE s
RECURSIVE rstrip(_)
rstrip(s) ==
    IF s # <<>> /\ s[Len(s)] \in WS THEN rstrip(SubSeq(s, 1, Len(s) - 1)) ELSE s
strip(s) == rstrip(lstrip(s))

\* is_missing(value)
is_missing(value) == strip(value) = <<>>

\* float(value): the decimal grammar [sign] (digits [. [digits]] | . digits) [e [sign] digits]
\* over the characters of the model; anything else raises ValueError.
Digits == {"0", "1", "5"}
FloatStep(q, ch) ==
    CASE q = "start" /\ ch \in {"+", "-"} -> "sign"
      [] q \in {"start", "sign", "int"} /\ ch \in Digits -> "int"
      [] q \in {"start", "sign"} /\ ch = "." -> "dot"
      [] q = "int" /\ ch = "." -> "frac"
      [] q \in {"dot", "frac"} /\ ch \in Digits -> "frac"
      [] q \in {"int", "frac"} /\ ch \in {"e", "E"} -> "e"
      [] q = "e" /\ ch \in {"+", "-"} -> "esign"
      [] q \in {"e", "esign", "exp"} /\ ch \in Digits -> "exp"
      [] OTHER -> "fail"
RECURSIVE FloatRun(_, _)
FloatRun(q, s) == IF s = <<>> THEN q ELSE FloatRun(FloatStep(q, Head(s)), Tail(s))
FloatParses(s) == FloatRun("start", strip(s)) \in {"int", "frac", "exp"}

\* is_number(value): True unless float(value) raises ValueError
is_number(value) == FloatParses(value)

\* ======================================================================
\* tool3_csv_quicklook.py
\* ======================================================================

\* Field values found in the data rows: "", " ", " 1.5 ", "1e"
SampleValues == { <<>>, <<" ">>, <<" ", "1", ".", "5", " ">>, <<"1", "e">> }
\* The field of a row that is longer than the header
ExtraField == <<"x">>
\* Header rows: blank first line, one column, two columns, a repeated name
Headers == { <<>>, <<"a">>, <<"a", "b">>, <<"a", "a">> }

\* The rows csv.reader can yield under a header of n fields: ragged (1..n fields)
\* or one field too long. DictReader skips rows without fields.
RawRows(n) ==
    UNION {[1..k -> SampleValues] : k \in 1..n}
    \cup {r \o <<ExtraField>> : r \in [1..n -> SampleValues]}

\* The dict csv.DictReader yields for a row: dict(zip(fieldnames, row)), then
\* restval None for the names past the row's end, then the surplus under restkey.
\* d is the dict without restkey; rest is the list under restkey (<<>>: no such key).
LastIndex(names, c) == CHOOSE i \in 1..Len(names) :
    names[i] = c /\ \A j \in (i + 1)..Len(names) : names[j] # c
DictRow(names, fields) ==
    [d |-> [c \in Range(names) |->
               IF LastIndex(names, c) <= Len(fields)
               THEN fields[LastIndex(names, c)] ELSE None],
     rest |-> IF Len(fields) > Len(names)
              THEN SubSeq(fields, Len(names) + 1, Len(fields)) ELSE <<>>]

\* row.get(c, "") followed by: "" if val is None else str(val)
FieldOf(row, c) ==
    LET val == IF c \in DOMAIN row.d THEN row.d[c] ELSE <<>>
    IN  IF val = None THEN <<>> ELSE val

\* if len(preview_rows) < args.head: preview_rows.append(row)
PreviewAppendLe(preview, row, limit) ==
    IF Len(preview) <= limit THEN Append(preview, row) ELSE preview
PreviewAppend(preview, row, limit) ==
    IF Len(preview) < limit THEN Append(preview, row) ELSE preview

\* if numeric_possible[c] and not is_number(val.strip()): numeric_possible[c] = False
NumericUpdateLast(flag, val) == is_number(strip(val))
NumericUpdate(flag, val) ==
    IF flag /\ ~is_number(strip(val)) THEN FALSE ELSE flag

\* The body of "for c in columns" for one c; st holds the three dicts.
ColumnStep(st, c, row) ==
    LET val == FieldOf(row, c)
    IN  IF is_missing(val)
        THEN [st EXCEPT !.mc[c] = @ + 1]
        ELSE [st EXCEPT !.nm[c] = @ + 1,
                        !.np[c] = NumericUpdate(@, val)]

\* for c in columns: ..., from the i-th entry of columns on
RECURSIVE ColumnLoop(_, _, _, _)
ColumnLoop(st, cols, i, row) ==
    IF i > Len(cols) THEN st
    ELSE ColumnLoop(ColumnStep(st, cols[i], row), cols, i + 1, row)

\* miss_pct = (miss / row_count * 100) if row_count > 0 else 0.0
\* A quotient is kept exact: num / den; err marks ZeroDivisionError.
Quotient(num, den) ==
    IF den = 0 THEN [err |-> TRUE, num |-> 0, den |-> 0]
    ELSE [err |-> FALSE, num |-> num, den |-> den]
miss_pct_unguarded(miss, rows) == Quotient(miss * 100, rows)
miss_pct(miss, rows) ==
    IF rows > 0 THEN Quotient(miss * 100, rows) ELSE Quotient(0, 1)

\* col_type of one column
col_type_numeric_first(non_missing, numeric) ==
    IF numeric THEN "numeric" ELSE IF non_missing = 0 THEN "empty" ELSE "text"
col_type(non_missing, numeric) ==
    IF non_missing = 0 THEN "empty"
    ELSE IF numeric THEN "numeric" ELSE "text"

StartCsv ==
    /\ pc = "start"
    /\ head \in -1..MaxHead
    /\ path_kind \in {"absent", "dir", "file"}
    /\ fieldnames \in (IF path_kind = "file" THEN {NoHeader} \cup Headers ELSE {NoHeader})
    /\ columns = <<>>
    /\ row_count = 0
    /\ preview_rows = <<>>
    /\ missing_counts = <<>>
    /\ numeric_possible = <<>>
    /\ non_missing_seen = <<>>
    /\ summary = <<>>
    /\ rows_read = <<>>

\* --head below zero: SystemExit
RejectHead ==
    /\ pc = "start"
    /\ head < 0
    /\ pc' = "exit_head"
    /\ UNCHANGED <<statsVars, pwVars, head, path_kind, fieldnames, columns, row_count, preview_rows,
                   missing_counts, numeric_possible, non_missing_seen, summary, rows_read>>

\* path missing or not a regular file: SystemExit
RejectPath ==
    /\ pc = "start"
    /\ head >= 0
    /\ path_kind # "file"
    /\ pc' = IF path_kind = "absent" THEN "exit_not_found" ELSE "exit_not_file"
    /\ UNCHANGED <<statsVars, pwVars, head, path_kind, fieldnames, columns, row_count, preview_rows,
                   missing_counts, numeric_possible, non_missing_seen, summary, rows_read>>

\* reader.fieldnames is None: SystemExit
RejectHeader ==
    /\ pc = "start"
    /\ head >= 0
    /\ path_kind = "file"
    /\ fieldnames = NoHeader
    /\ pc' = "exit_no_header"
    /\ UNCHANGED <<statsVars, pwVars, head, path_kind, fieldnames, columns, row_count, preview_rows,
                   missing_counts, numeric_possible, non_missing_seen, summary, rows_read>>

\* The header was read: columns and the three dicts are set up
ReadHeader ==
    /\ pc = "start"
    /\ head >= 0
    /\ path_kind = "file"
    /\ fieldnames # NoHeader
    /\ columns' = fieldnames
    /\ missing_counts' = [c \in Range(fieldnames) |-> 0]
    /\ numeric_possible' = [c \in Range(fieldnames) |-> TRUE]
    /\ non_missing_seen' = [c \in Range(fieldnames) |-> 0]
    /\ pc' = "reading"
    /\ UNCHANGED <<statsVars, pwVars, head, path_kind, fieldnames, row_count, preview_rows, summary, rows_read>>

\* One iteration of "for row in reader"
IngestRow ==
    /\ pc = "reading"
    /\ row_count < MaxRows
    /\ \E fields \in RawRows(Len(fieldnames)) :
         LET row == DictRow(fieldnames, fields)
             st == ColumnLoop([mc |-> missing_counts, np |-> numeric_possible,
                               nm |-> non_missing_seen], columns, 1, row)
         IN  /\ row_count' = row_count + 1
             /\ preview_rows' = PreviewAppend(preview_rows, row, head)
             /\ missing_counts' = st.mc
             /\ numeric_possible' = st.np
             /\ non_missing_seen' = st.nm
             /\ rows_read' = Append(rows_read, row)
    /\ UNCHANGED <<statsVars, pwVars, pc, head, path_kind, fieldnames, columns, summary>>

\* The reader is exhausted: print the summary and the preview
Report ==
    /\ pc = "reading"
    /\ summary' = [i \in 1..Len(columns) |->
                     [name |-> columns[i],
                      col_type |-> col_type(non_missing_seen[columns[i]],
                                            numeric_possible[columns[i]]),
                      miss |-> missing_counts[columns[i]],
                      miss_pct |-> miss_pct(missing_counts[columns[i]], row_count)]]
    /\ pc' = IF \E i \in 1..Len(columns) : summary'[i].miss_pct.err
             THEN "exit_zero_division" ELSE "done"
    /\ UNCHANGED <<statsVars, pwVars, head, path_kind, fieldnames, columns, row_count, preview_rows,
                   missing_counts, numeric_possible, non_missing_seen, rows_read>>

NextCsv ==
    \/ RejectHead
    \/ RejectPath
    \/ RejectHeader
    \/ ReadHeader
    \/ IngestRow
    \/ Report

IdleStats ==
    /\ fpc = "idle" /\ total_flag = FALSE /\ fs = <<>> /\ fidx = 0 /\ fpos = 0
    /\ lines = 0 /\ words = 0 /\ chars = 0
    /\ total_lines = 0 /\ total_words = 0 /\ total_chars = 0
    /\ processed = 0 /\ out = <<>>
IdlePw ==
    /\ ppc = "idle" /\ caller = "main" /\ length = 0 /\ count = 0
    /\ use_symbols = FALSE /\ pchars = <<>> /\ chosen = <<>> /\ result = <<>>
    /\ made = 0 /\ pout = <<>>
IdleCsv ==
    /\ pc = "idle" /\ head = 0 /\ path_kind = "absent" /\ fieldnames = NoHeader
    /\ columns = <<>> /\ row_count = 0 /\ preview_rows = <<>>
    /\ missing_counts = <<>> /\ numeric_possible = <<>> /\ non_missing_seen = <<>>
    /\ summary = <<>> /\ rows_read = <<>>

InitCsv == StartCsv /\ IdleStats /\ IdlePw
SpecCsv == InitCsv /\ [][NextCsv]_vars

\* ---------------------------------------------------------------- claims, tool3

\* The value of column c in a row the reader yielded is non-missing and fails is_number
FailsNumber(row, c) ==
    ~is_missing(FieldOf(row, c)) /\ ~is_number(strip(FieldOf(row, c)))
\* The value of column c in a row the reader yielded is non-missing
NonMissing(row, c) == ~is_missing(FieldOf(row, c))
Ingesting == pc \in {"reading", "done"}

\* C1: for every column c of the schema, after any sequence of ingested rows,
\* missing_counts[c] + non_missing_seen[c] equals the number of rows seen so far.
C1_CountsSumToRows ==
    Ingesting =>
        \A c \in Range(columns) : missing_counts[c] + non_missing_seen[c] = row_count

C3_NumericPossible ==
    /\ [](Ingesting => \A c \in Range(columns) :
            numeric_possible[c] = ~(\E i \in 1..Len(rows_read) : FailsNumber(rows_read[i], c)))
    /\ [][\A c \in DOMAIN numeric_possible :
            ~numeric_possible[c] => ~numeric_possible'[c]]_vars
\* a column already known to be text receives a non-missing numeric value
C3_Witness ==
    /\ pc = "reading" /\ row_count >= 2
    /\ \E c \in Range(columns) :
         /\ ~numeric_possible[c]
         /\ FailsNumber(rows_read[1], c)
         /\ NonMissing(rows_read[row_count], c)
         /\ ~FailsNumber(rows_read[row_count], c)

\* C4: each summary line's type is one of empty, numeric, text: empty iff the
\* column has no non-missing value (non_missing_seen = 0), numeric iff it has one
\* and all of them passed is_number, text iff one of them failed.
C4_InferredType ==
    pc = "done" => \A i \in 1..Len(summary) :
        LET c == columns[i]
            t == summary[i].col_type
            some == \E k \in 1..Len(rows_read) : NonMissing(rows_read[k], c)
            bad == \E k \in 1..Len(rows_read) : FailsNumber(rows_read[k], c)
        IN  /\ t \in {"empty", "numeric", "text"}
            /\ (t = "empty") <=> (non_missing_seen[c] = 0)
            /\ (t = "empty") <=> ~some
            /\ (t = "numeric") <=> (some /\ ~bad)
            /\ (t = "text") <=> bad
\* a report with a numeric column next to a text column that also holds a number
C4_Witness ==
    /\ pc = "done" /\ Len(summary) = 2 /\ row_count = 2
    /\ summary[1].col_type = "numeric" /\ summary[2].col_type = "text"
    /\ \E k \in 1..2 : NonMissing(rows_read[k], columns[2])
                       /\ ~FailsNumber(rows_read[k], columns[2])

\* C5: a header row without columns is fatal: main stops before any row is read
\* and prints no report.
C5_EmptySchemaIsFatal ==
    (path_kind = "file" /\ fieldnames = <<>>) =>
        /\ ~Ingesting
        /\ row_count = 0

\* C6: a row whose field for column c is absent adds one to missing_counts[c],
\* leaves non_missing_seen[c] and numeric_possible[c] alone and counts once;
\* the fields of a row beyond the header change no column's statistics.
C6_AbsentFieldIsMissing ==
    [][(pc = "reading" /\ pc' = "reading") =>
         LET row == rows_read'[Len(rows_read')]
             cut == [row EXCEPT !.rest = <<>>]
             st == ColumnLoop([mc |-> missing_counts, np |-> numeric_possible,
                               nm |-> non_missing_seen], columns, 1, cut)
         IN  /\ row_count' = row_count + 1
             /\ \A c \in Range(columns) : row.d[c] = None =>
                   /\ missing_counts'[c] = missing_counts[c] + 1
                   /\ non_missing_seen'[c] = non_missing_seen[c]
                   /\ numeric_possible'[c] = numeric_possible[c]
             /\ missing_counts' = st.mc
             /\ non_missing_seen' = st.nm
             /\ numeric_possible' = st.np]_vars

\* C7: the printed percentage is missing / rows * 100 when rows > 0 and 0.0 when
\* rows = 0, and never a division by zero; with a non-empty header and no data
\* row the report has 0 rows, every column 0.0 and empty, and no preview row.
C7_MissingPct ==
    /\ pc # "exit_zero_division"
    /\ pc = "done" => \A i \in 1..Len(summary) :
          LET q == summary[i].miss_pct
          IN  /\ ~q.err /\ q.den # 0
              /\ row_count > 0 => q.num * row_count = summary[i].miss * 100 * q.den
              /\ row_count = 0 =>
                    /\ q.num = 0
                    /\ summary[i].col_type = "empty"
                    /\ preview_rows = <<>>
\* the report of a file with a header and no data row, with a preview asked for
C7_Witness ==
    /\ pc = "done" /\ row_count = 0 /\ Len(summary) >= 1 /\ head >= 1
    /\ \A i \in 1..Len(summary) : summary[i].miss_pct = Quotient(0, 1)

\* C9: for every header, repeated names included, each reported column has
\* 0 <= missing <= rows and non_missing <= rows.
C9_CountsWithinRows ==
    Ingesting => \A c \in Range(columns) :
        /\ 0 <= missing_counts[c] /\ missing_counts[c] <= row_count
        /\ non_missing_seen[c] <= row_count

\* ======================================================================
\* tool1_file_stats.py
\* ======================================================================

\* Lines a file is made of: "a b\n" and " a" (no newline)
SampleLines == { <<"a", " ", "b", "\n">>, <<" ", "a">> }

\* len(line.split()): the number of maximal runs of non-whitespace characters
RECURSIVE WordCount(_, _)
WordCount(line, inWord) ==
    IF line = <<>> THEN 0
    ELSE IF Head(line) \in WS THEN WordCount(Tail(line), FALSE)
    ELSE (IF inWord THEN 0 ELSE 1) + WordCount(Tail(line), TRUE)
SplitLen(line) == WordCount(line, FALSE)

\* What a file argument names. kind: "absent" (p.exists() is false), "dir"
\* (p.is_file() is false), "denied" (open raises PermissionError), "text".
\* content: the lines that decode; bad: bytes that are not UTF-8 follow them, so
\* that reading raises UnicodeDecodeError (the decoder works on chunks: the error
\* comes after any number of the decodable lines have been yielded).
Contents == UNION {[1..k -> SampleLines] : k \in 0..MaxLines}
FileEntries ==
    {[kind |-> k, content |-> <<>>, bad |-> FALSE] : k \in {"absent", "dir", "denied"}}
    \cup {[kind |-> "text", content |-> c, bad |-> b] : c \in Contents, b \in BOOLEAN}

CurFile == fs[fidx + 1]
Message(kind, f, l, w, c) ==
    [kind |-> kind, file |-> f, lines |-> l, words |-> w, chars |-> c]

StartStats ==
    /\ fpc = "next"
    /\ total_flag \in BOOLEAN
    /\ fs \in UNION {[1..n -> FileEntries] : n \in 1..MaxFiles}
    /\ fidx = 0 /\ fpos = 0
    /\ lines = 0 /\ words = 0 /\ chars = 0
    /\ total_lines = 0 /\ total_words = 0 /\ total_chars = 0
    /\ processed = 0
    /\ out = <<>>

\* not p.exists() or not p.is_file(): print and continue
SkipFile ==
    /\ fpc = "next" /\ fidx < Len(fs)
    /\ CurFile.kind \in {"absent", "dir"}
    /\ out' = Append(out, Message(CurFile.kind, fidx + 1, 0, 0, 0))
    /\ fidx' = fidx + 1
    /\ UNCHANGED <<csvVars, pwVars, fpc, total_flag, fs, fpos, lines, words, chars,
                   total_lines, total_words, total_chars, processed>>

\* counters reset, p.open raises PermissionError: print and continue
PermissionDenied ==
    /\ fpc = "next" /\ fidx < Len(fs)
    /\ CurFile.kind = "denied"
    /\ lines' = 0 /\ words' = 0 /\ chars' = 0
    /\ out' = Append(out, Message("denied", fidx + 1, 0, 0, 0))
    /\ fidx' = fidx + 1
    /\ UNCHANGED <<csvVars, pwVars, fpc, total_flag, fs, fpos,
                   total_lines, total_words, total_chars, processed>>

\* counters reset, the file is open
OpenFile ==
    /\ fpc = "next" /\ fidx < Len(fs)
    /\ CurFile.kind = "text"
    /\ lines' = 0 /\ words' = 0 /\ chars' = 0
    /\ fpos' = 0
    /\ fpc' = "reading"
    /\ UNCHANGED <<csvVars, pwVars, total_flag, fs, fidx,
                   total_lines, total_words, total_chars, processed, out>>

\* one iteration of "for line in f"
ReadLine ==
    /\ fpc = "reading"
    /\ fpos < Len(CurFile.content)
    /\ LET line == CurFile.content[fpos + 1]
       IN  /\ lines' = lines + 1
           /\ words' = words + SplitLen(line)
           /\ chars' = chars + Len(line)
    /\ fpos' = fpos + 1
    /\ UNCHANGED <<csvVars, pwVars, fpc, total_flag, fs, fidx,
                   total_lines, total_words, total_chars, processed, out>>

\* UnicodeDecodeError while reading: print and continue
DecodeErrorKeepsCounts ==
    /\ fpc = "reading"
    /\ CurFile.bad
    /\ out' = Append(out, Message("decode", fidx + 1, 0, 0, 0))
    /\ total_lines' = total_lines + lines
    /\ total_words' = total_words + words
    /\ total_chars' = total_chars + chars
    /\ fidx' = fidx + 1
    /\ fpc' = "next"
    /\ UNCHANGED <<csvVars, pwVars, total_flag, fs, fpos, lines, words, chars, processed>>
DecodeError ==
    /\ fpc = "reading"
    /\ CurFile.bad
    /\ out' = Append(out, Message("decode", fidx + 1, 0, 0, 0))
    /\ fidx' = fidx + 1
    /\ fpc' = "next"
    /\ UNCHANGED <<csvVars, pwVars, total_flag, fs, fpos, lines, words, chars,
                   total_lines, total_words, total_chars, processed>>

\* the file was read to its end: print its counts, add them to the totals
FinishFile ==
    /\ fpc = "reading"
    /\ fpos = Len(CurFile.content)
    /\ ~CurFile.bad
    /\ out' = Append(out, Message("stats", fidx + 1, lines, words, chars))
    /\ processed' = processed + 1
    /\ total_lines' = total_lines + lines
    /\ total_words' = total_words + words
    /\ total_chars' = total_chars + chars
    /\ fidx' = fidx + 1
    /\ fpc' = "next"
    /\ UNCHANGED <<csvVars, pwVars, total_flag, fs, fpos, lines, words, chars>>

\* after the loop: if args.total and processed > 0: print TOTAL
PrintTotal ==
    /\ fpc = "next" /\ fidx = Len(fs)
    /\ out' = IF total_flag /\ processed > 0
              THEN Append(out, Message("total", 0, total_lines, total_words, total_chars))
              ELSE out
    /\ fpc' = "done"
    /\ UNCHANGED <<csvVars, pwVars, total_flag, fs, fidx, fpos, lines, words, chars,
                   total_lines, total_words, total_chars, processed>>

NextStats ==
    \/ SkipFile
    \/ PermissionDenied
    \/ OpenFile
    \/ ReadLine
    \/ DecodeError
    \/ FinishFile
    \/ PrintTotal

InitStats == IdleCsv /\ StartStats /\ IdlePw
SpecStats == InitStats /\ [][NextStats]_vars

\* ---------------------------------------------------------------- claims, tool1

RECURSIVE SumField(_, _)
\* the sum of field f ("lines", "words", "chars") over the "stats" records of a log
SumField(log, f) ==
    IF log = <<>> THEN 0
    ELSE (IF Head(log).kind = "stats" THEN Head(log)[f] ELSE 0) + SumField(Tail(log), f)
RECURSIVE SumWords(_)
SumWords(content) ==
    IF content = <<>> THEN 0 ELSE SplitLen(Head(content)) + SumWords(Tail(content))
RECURSIVE SumChars(_)
SumChars(content) ==
    IF content = <<>> THEN 0 ELSE Len(Head(content)) + SumChars(Tail(content))
StatsLines == {i \in 1..Len(out) : out[i].kind = "stats"}
TotalLines == {i \in 1..Len(out) : out[i].kind = "total"}
ReadToEnd(f) == fs[f].kind = "text" /\ ~fs[f].bad

\* C8: the totals and processed are changed only by files read to the end: a
\* file that is absent, no regular file, unreadable or fails to decode part-way
\* leaves them unchanged and the loop goes on; TOTAL is printed iff --total was
\* given and processed > 0, and it is the sum of the per-file counts printed.
C8_TotalsOnlyFromReadFiles ==
    /\ [](/\ processed = Cardinality(StatsLines)
          /\ total_lines = SumField(out, "lines")
          /\ total_words = SumField(out, "words")
          /\ total_chars = SumField(out, "chars")
          /\ \A i \in StatsLines :
                /\ ReadToEnd(out[i].file)
                /\ out[i].lines = Len(fs[out[i].file].content)
                /\ out[i].words = SumWords(fs[out[i].file].content)
                /\ out[i].chars = SumChars(fs[out[i].file].content)
          /\ \A f \in 1..fidx : ReadToEnd(f) <=> \E i \in StatsLines : out[i].file = f
          /\ fpc # "done" => TotalLines = {}
          /\ fpc = "done" =>
                /\ (TotalLines # {}) <=> (total_flag /\ processed > 0)
                /\ \A i \in TotalLines :
                      /\ i = Len(out)
                      /\ out[i].lines = SumField(out, "lines")
                      /\ out[i].words = SumField(out, "words")
                      /\ out[i].chars = SumField(out, "chars"))
    /\ [][(fidx' = fidx + 1 /\ ~ReadToEnd(fidx + 1)) =>
            /\ UNCHANGED <<total_lines, total_words, total_chars, processed>>
            /\ fpc' = "next"]_vars
\* a file failed to decode after some of its lines were counted, after a file
\* with words in it was read to the end
C8_Witness ==
    /\ fpc = "next" /\ out # <<>> /\ out[Len(out)].kind = "decode"
    /\ lines > 0 /\ processed > 0 /\ total_words > 0

\* ======================================================================
\* tool2_password_gen.py
\* ======================================================================

\* The character classes, cut down to one character each
lowers == <<"a">>
uppers == <<"A">>
digits == <<"0">>
symbols == <<"!">>

\* min_length = 4 if use_symbols else 3
min_length_swapped(sym) == IF sym THEN 3 ELSE 4
min_length(sym) == IF sym THEN 4 ELSE 3

\* pool = lowers + uppers + digits (+ symbols)
pool(sym) == lowers \o uppers \o digits \o (IF sym THEN symbols ELSE <<>>)

\* secrets.choice(seq): any element of seq
Choices(seq) == Range(seq)

\* secrets.SystemRandom().shuffle(x): any rearrangement of x
Shuffles(x) == {[i \in 1..Len(x) |-> x[p[i]]] : p \in Permutations(1..Len(x))}

StartPw ==
    /\ caller \in {"main", "direct"}
    /\ ppc = (IF caller = "main" THEN "main" ELSE "call")
    /\ length \in -1..MaxLength
    /\ count \in (IF caller = "main" THEN 0..MaxCount ELSE {1})
    /\ use_symbols \in BOOLEAN
    /\ pchars = <<>> /\ chosen = <<>> /\ result = <<>>
    /\ made = 0 /\ pout = <<>>

\* main: --length or --count not positive: SystemExit
MainReject ==
    /\ ppc = "main"
    /\ (length <= 0 \/ count <= 0)
    /\ ppc' = "exit"
    /\ UNCHANGED <<csvVars, statsVars, caller, length, count, use_symbols, pchars,
                   chosen, result, made, pout>>

\* main: the arguments are accepted, the for loop starts
MainAccept ==
    /\ ppc = "main"
    /\ length > 0 /\ count > 0
    /\ ppc' = "loop"
    /\ UNCHANGED <<csvVars, statsVars, caller, length, count, use_symbols, pchars,
                   chosen, result, made, pout>>

\* main: for _ in range(args.count): the next call, or the end of the loop
MainLoop ==
    /\ ppc = "loop"
    /\ ppc' = IF made < count THEN "call" ELSE "done"
    /\ UNCHANGED <<csvVars, statsVars, caller, length, count, use_symbols, pchars,
                   chosen, result, made, pout>>

\* generate_password: length < min_length raises ValueError, which main turns
\* into SystemExit
RaiseValueError ==
    /\ ppc = "call"
    /\ length < min_length(use_symbols)
    /\ ppc' = IF caller = "main" THEN "exit" ELSE "raised"
    /\ UNCHANGED <<csvVars, statsVars, caller, length, count, use_symbols, pchars,
                   chosen, result, made, pout>>

\* generate_password: one character of each class
Pick ==
    /\ ppc = "call"
    /\ length >= min_length(use_symbols)
    /\ \E l \in Choices(lowers), u \in Choices(uppers), d \in Choices(digits),
          s \in Choices(symbols) :
         pchars' = <<l, u, d>> \o (IF use_symbols THEN <<s>> ELSE <<>>)
    /\ chosen' = pchars'
    /\ ppc' = "fill"
    /\ UNCHANGED <<csvVars, statsVars, caller, length, count, use_symbols,
                   result, made, pout>>

\* generate_password: one iteration of "while len(chars) < length"
Fill ==
    /\ ppc = "fill"
    /\ Len(pchars) < length
    /\ \E ch \in Choices(pool(use_symbols)) : pchars' = Append(pchars, ch)
    /\ chosen' = pchars'
    /\ UNCHANGED <<csvVars, statsVars, ppc, caller, length, count, use_symbols,
                   result, made, pout>>

\* generate_password: the loop is over, shuffle
Shuffle ==
    /\ ppc = "fill"
    /\ ~(Len(pchars) < length)
    /\ pchars' \in Shuffles(pchars)
    /\ ppc' = "return"
    /\ UNCHANGED <<csvVars, statsVars, caller, length, count, use_symbols,
                   chosen, result, made, pout>>

\* generate_password returns "".join(chars); main prints it
Return ==
    /\ ppc = "return"
    /\ result' = pchars
    /\ pchars' = <<>>
    /\ chosen' = <<>>
    /\ IF caller = "main"
       THEN /\ pout' = Append(pout, pchars)
            /\ made' = made + 1
            /\ ppc' = "loop"
       ELSE /\ UNCHANGED <<pout, made>>
            /\ ppc' = "done"
    /\ UNCHANGED <<csvVars, statsVars, caller, length, count, use_symbols>>

NextPw ==
    \/ MainReject
    \/ MainAccept
    \/ MainLoop
    \/ RaiseValueError
    \/ Pick
    \/ Fill
    \/ Shuffle
    \/ Return

InitPw == IdleCsv /\ IdleStats /\ StartPw
SpecPw == InitPw /\ [][NextPw]_vars
\* a sequential program: it takes its next step whenever it has one
SpecPwFair == SpecPw /\ WF_vars(NextPw)

\* ---------------------------------------------------------------- claims, tool2

Occurrences(s, ch) == Cardinality({i \in 1..Len(s) : s[i] = ch})
IsPermutation(s, t) ==
    /\ Len(s) = Len(t)
    /\ \A ch \in Range(s) \cup Range(t) : Occurrences(s, ch) = Occurrences(t, ch)
LongEnough == IF use_symbols THEN length >= 4 ELSE length >= 3
\* what the claim asks of a password
GoodPassword(pw) ==
    /\ Len(pw) = length
    /\ Range(pw) \subseteq Range(pool(use_symbols))
    /\ Range(pw) \cap Range(lowers) # {}
    /\ Range(pw) \cap Range(uppers) # {}
    /\ Range(pw) \cap Range(digits) # {}
    /\ use_symbols => Range(pw) \cap Range(symbols) # {}
PwTerminated == ppc \in {"done", "exit", "raised"}

\* C10: generate_password terminates for every input; with length >= 4 (symbols)
\* or >= 3 (no symbols) it returns exactly length characters of the pool with a
\* lowercase letter, an uppercase letter, a digit and, with symbols, a symbol,
\* a rearrangement of the characters chosen; below that it raises ValueError
\* before choosing a character, and main exits without printing a password.
C10_PasswordShape ==
    /\ [](/\ ppc = "return" =>
                /\ LongEnough
                /\ GoodPassword(pchars)
                /\ IsPermutation(pchars, chosen)
          /\ \A i \in 1..Len(pout) : GoodPassword(pout[i])
          /\ (ppc = "done" /\ caller = "direct") => GoodPassword(result)
          /\ (ppc = "done" /\ caller = "main") => Len(pout) = count /\ LongEnough
          /\ ~LongEnough =>
                /\ pchars = <<>> /\ chosen = <<>> /\ result = <<>> /\ pout = <<>>
                /\ ppc \in {"main", "loop", "call", "exit", "raised"}
          /\ ppc \in {"exit", "raised"} => pout = <<>>)
    /\ <>PwTerminated
\* main has printed a password that was filled from the pool and shuffled
C10_Witness ==
    /\ ppc = "done" /\ caller = "main" /\ ~use_symbols /\ length = 4
    /\ Len(pout) = 1 /\ pout[1][1] # "a"

====
